---- MODULE Spec2Model ----
(***************************************************************************)
(* Import-graph web application (src/app.py).                              *)
(*                                                                         *)
(* Text is modelled as a sequence of one-character strings, so that        *)
(* strip / startswith / split / endswith are computed character by         *)
(* character as Python computes them.  A module name is such a sequence.   *)
(* The directory tree maps a path <<directory, file name>> to a file.      *)
(* A graph keeps its nodes and its edges in insertion order, as the        *)
(* dictionaries of networkx.DiGraph do.                                    *)
(***************************************************************************)
EXTENDS Integers, Sequences, FiniteSets, TLC

VARIABLES fs, graph, response

vars == <<fs, graph, response>>

(***************************************************************************)
(* Bounds of the model.                                                    *)
(***************************************************************************)
MaxFiles == 2
MaxLines == 3
MaxParseLines == 3
MaxEdges == 4

(***************************************************************************)
(* Generic sequence helpers.                                               *)
(***************************************************************************)
Range(s) == {s[i] : i \in 1..Len(s)}

Contains(s, x) == \E i \in 1..Len(s) : s[i] = x

IndexOf(s, x) == CHOOSE i \in 1..Len(s) : s[i] = x /\ \A j \in 1..(i - 1) : s[j] # x

NoDup(s) == \A i, j \in 1..Len(s) : s[i] = s[j] => i = j

RECURSIVE Flatten(_)
Flatten(ss) == IF ss = <<>> THEN <<>> ELSE Head(ss) \o Flatten(Tail(ss))

SeqsUpTo(S, n) == UNION {[1..k -> S] : k \in 0..n}

Perms(S) == {p \in [1..Cardinality(S) -> S] : Range(p) = S}

(***************************************************************************)
(* Python string operations, character by character.                       *)
(***************************************************************************)
Whitespace == {" ", "\t", "\n"}

IsSpace(c) == c \in Whitespace

RECURSIVE lstrip(_)
lstrip(s) == IF s # <<>> /\ IsSpace(Head(s)) THEN lstrip(Tail(s)) ELSE s

RECURSIVE rstrip(_)
rstrip(s) ==
    IF s # <<>> /\ IsSpace(s[Len(s)]) THEN rstrip(SubSeq(s, 1, Len(s) - 1)) ELSE s

strip(s) == rstrip(lstrip(s))

startswith(s, prefix) ==
    Len(s) >= Len(prefix) /\ SubSeq(s, 1, Len(prefix)) = prefix

endswith(s, suffix) ==
    Len(s) >= Len(suffix) /\ SubSeq(s, Len(s) - Len(suffix) + 1, Len(s)) = suffix

RECURSIVE split_scan(_, _, _)
split_scan(s, cur, out) ==
    IF s = <<>> THEN (IF cur = <<>> THEN out ELSE Append(out, cur))
    ELSE IF IsSpace(Head(s))
         THEN split_scan(Tail(s), <<>>, IF cur = <<>> THEN out ELSE Append(out, cur))
         ELSE split_scan(Tail(s), Append(cur, Head(s)), out)

split(s) == split_scan(s, <<>>, <<>>)

RECURSIVE readlines_scan(_, _, _)
readlines_scan(text, cur, out) ==
    IF text = <<>> THEN (IF cur = <<>> THEN out ELSE Append(out, cur))
    ELSE IF Head(text) = "\n"
         THEN readlines_scan(Tail(text), <<>>, Append(out, Append(cur, "\n")))
         ELSE readlines_scan(Tail(text), Append(cur, Head(text)), out)

readlines(text) == readlines_scan(text, <<>>, <<>>)

RECURSIVE Str(_)
Str(s) == IF s = <<>> THEN "" ELSE Head(s) \o Str(Tail(s))

RECURSIVE join(_, _)
join(sep, strs) ==
    IF strs = <<>> THEN ""
    ELSE IF Len(strs) = 1 THEN strs[1]
    ELSE strs[1] \o sep \o join(sep, Tail(strs))

(***************************************************************************)
(* Literals of the program.                                                *)
(***************************************************************************)
ImportPrefix == <<"i", "m", "p", "o", "r", "t", " ">>
FromPrefix == <<"f", "r", "o", "m", " ">>
ImportWord == <<"i", "m", "p", "o", "r", "t">>
PySuffix == <<".", "p", "y">>
CodebasePath == "./example-codebase"

(***************************************************************************)
(* parse_imports.  The loop body handles one line; the result is either    *)
(* the list of imports or the exception raised by open().                  *)
(***************************************************************************)
parse_line_nostrip(imports, raw) ==
    LET line == raw
        parts == split(line)
    IN  IF startswith(line, ImportPrefix)
        THEN (IF Len(parts) > 1 THEN Append(imports, parts[2]) ELSE imports)
        ELSE IF startswith(line, FromPrefix)
             THEN (IF Len(parts) > 3 /\ parts[3] = ImportWord
                   THEN Append(imports, parts[2] \o <<".">> \o parts[4])
                   ELSE imports)
             ELSE imports

parse_line(imports, raw) ==
    LET line == strip(raw)
        parts == split(line)
    IN  IF startswith(line, ImportPrefix)
        THEN (IF Len(parts) > 1 THEN Append(imports, parts[2]) ELSE imports)
        ELSE IF startswith(line, FromPrefix)
             THEN (IF Len(parts) > 3 /\ parts[3] = ImportWord
                   THEN Append(imports, parts[2] \o <<".">> \o parts[4])
                   ELSE imports)
             ELSE imports

RECURSIVE parse_lines(_, _)
parse_lines(imports, lines) ==
    IF lines = <<>> THEN imports
    ELSE parse_lines(parse_line(imports, Head(lines)), Tail(lines))

parse_text(text) == parse_lines(<<>>, readlines(text))

open_fails(tree, file_path) ==
    file_path \notin DOMAIN tree \/ ~tree[file_path].readable

parse_imports_swallow(tree, file_path) ==
    IF open_fails(tree, file_path)
    THEN [raised |-> FALSE, value |-> <<>>]
    ELSE [raised |-> FALSE, value |-> parse_text(tree[file_path].text)]

parse_imports(tree, file_path) ==
    IF open_fails(tree, file_path)
    THEN [raised |-> TRUE, value |-> <<>>]
    ELSE [raised |-> FALSE, value |-> parse_text(tree[file_path].text)]

(***************************************************************************)
(* networkx.DiGraph: nodes and edges in insertion order, no parallel edges.*)
(***************************************************************************)
NoGraph == [nodes |-> <<>>, edges |-> <<>>, unbound |-> TRUE]

EmptyGraph == [nodes |-> <<>>, edges |-> <<>>]

DiGraphShared == IF graph = NoGraph THEN EmptyGraph ELSE graph

DiGraph == EmptyGraph

add_node(G, n) ==
    IF Contains(G.nodes, n) THEN G ELSE [G EXCEPT !.nodes = Append(G.nodes, n)]

add_edge_multi(G, u, v) ==
    [add_node(add_node(G, u), v) EXCEPT !.edges = Append(G.edges, <<u, v>>)]

add_edge(G, u, v) ==
    LET H == add_node(add_node(G, u), v)
    IN  IF Contains(H.edges, <<u, v>>) THEN H
        ELSE [H EXCEPT !.edges = Append(H.edges, <<u, v>>)]

in_degree(G, n) == Len(SelectSeq(G.edges, LAMBDA e : e[2] = n))

out_edges(G, n) == SelectSeq(G.edges, LAMBDA e : e[1] = n)

(***************************************************************************)
(* os.walk: the root directory first, then its sub-directory; the files of *)
(* a directory come in the order the operating system lists them.          *)
(***************************************************************************)
Dirs == <<CodebasePath, "./example-codebase/pkg">>

FilesIn(tree, d) == {p[2] : p \in {q \in DOMAIN tree : q[1] = d}}

os_walk(tree) ==
    {[i \in 1..Len(Dirs) |-> [root |-> Dirs[i], files |-> l[i]]] :
        l \in {m \in [1..Len(Dirs) -> UNION {Perms(FilesIn(tree, Dirs[i])) : i \in 1..Len(Dirs)}] :
                  \A i \in 1..Len(Dirs) : m[i] \in Perms(FilesIn(tree, Dirs[i]))}}

(***************************************************************************)
(* build_import_graph.                                                     *)
(***************************************************************************)
RECURSIVE add_imports_reversed(_, _, _)
add_imports_reversed(G, file, imports) ==
    IF imports = <<>> THEN G
    ELSE add_imports_reversed(add_edge(G, Head(imports), file), file, Tail(imports))

RECURSIVE add_imports(_, _, _)
add_imports(G, file, imports) ==
    IF imports = <<>> THEN G
    ELSE add_imports(add_edge(G, file, Head(imports)), file, Tail(imports))

is_source_file_any(file) == TRUE

is_source_file(file) == endswith(file, PySuffix)

RECURSIVE build_files(_, _, _, _)
build_files(tree, G, root, files) ==
    IF files = <<>> THEN [raised |-> FALSE, value |-> G]
    ELSE IF is_source_file(Head(files))
         THEN LET imports == parse_imports(tree, <<root, Head(files)>>)
              IN  IF imports.raised THEN [raised |-> TRUE, value |-> NoGraph]
                  ELSE build_files(tree, add_imports(G, Head(files), imports.value),
                                   root, Tail(files))
         ELSE build_files(tree, G, root, Tail(files))

RECURSIVE build_walk(_, _, _)
build_walk(tree, G, walk) ==
    IF walk = <<>> THEN [raised |-> FALSE, value |-> G]
    ELSE LET r == build_files(tree, G, Head(walk).root, Head(walk).files)
         IN  IF r.raised THEN r ELSE build_walk(tree, r.value, Tail(walk))

build_import_graph(tree, walk) == build_walk(tree, DiGraph, walk)

(***************************************************************************)
(* identify_critical_nodes.                                                *)
(***************************************************************************)
CriticalThreshold == 1

identify_critical_nodes_atleast(G) ==
    SelectSeq(G.nodes, LAMBDA n : in_degree(G, n) >= CriticalThreshold)

identify_critical_nodes(G) ==
    SelectSeq(G.nodes, LAMBDA n : in_degree(G, n) > CriticalThreshold)

(***************************************************************************)
(* networkx.edge_dfs(G, start_node, orientation='original'): the edges in  *)
(* the order the generator yields them, each as (tail, head, 'forward').   *)
(***************************************************************************)
RECURSIVE edge_dfs_loop(_, _, _, _, _, _)
edge_dfs_loop(G, stack, visited_nodes, visited_edges, iters, out) ==
    IF stack = <<>> THEN out
    ELSE LET current_node == stack[Len(stack)]
             it == IF current_node \in visited_nodes THEN iters[current_node] ELSE 1
             from_node == out_edges(G, current_node)
             vn == visited_nodes \cup {current_node}
         IN  IF it > Len(from_node)
             THEN edge_dfs_loop(G, SubSeq(stack, 1, Len(stack) - 1), vn, visited_edges,
                                [iters EXCEPT ![current_node] = it], out)
             ELSE LET edge == from_node[it]
                      its == [iters EXCEPT ![current_node] = it + 1]
                  IN  IF edge \notin visited_edges
                      THEN edge_dfs_loop(G, Append(stack, edge[2]), vn,
                                         visited_edges \cup {edge}, its,
                                         Append(out, <<edge[1], edge[2], "forward">>))
                      ELSE edge_dfs_loop(G, stack, vn, visited_edges, its, out)

edge_dfs(G, start_node) ==
    edge_dfs_loop(G, <<start_node>>, {}, {}, [n \in Range(G.nodes) |-> 1], <<>>)

(***************************************************************************)
(* networkx.find_cycle(G, orientation='original').                         *)
(* pop_until is the "while True" loop that unwinds the active path after   *)
(* the traversal backtracked; set.remove raises when the element is absent.*)
(***************************************************************************)
RECURSIVE pop_until(_, _, _)
pop_until(edges, active_nodes, tail) ==
    IF edges = <<>> THEN [raised |-> FALSE, edges |-> <<>>, active_nodes |-> {tail}]
    ELSE LET popped_head == edges[Len(edges)][2]
             rest == SubSeq(edges, 1, Len(edges) - 1)
         IN  IF popped_head \notin active_nodes
             THEN [raised |-> TRUE, edges |-> rest, active_nodes |-> active_nodes]
             ELSE IF rest # <<>> /\ rest[Len(rest)][2] = tail
                  THEN [raised |-> FALSE, edges |-> rest,
                        active_nodes |-> active_nodes \ {popped_head}]
                  ELSE pop_until(rest, active_nodes \ {popped_head}, tail)

RECURSIVE cycle_scan(_, _, _, _, _, _)
cycle_scan(yielded, explored, edges, seen, active_nodes, previous_head) ==
    IF yielded = <<>>
    THEN [raised |-> FALSE, found |-> FALSE, cycle |-> <<>>, final_node |-> <<>>, seen |-> seen]
    ELSE LET edge == Head(yielded)
             tail == edge[1]
             head == edge[2]
         IN  IF head \in explored
             THEN cycle_scan(Tail(yielded), explored, edges, seen, active_nodes, previous_head)
             ELSE LET bt == IF previous_head # <<>> /\ tail # previous_head[1]
                            THEN pop_until(edges, active_nodes, tail)
                            ELSE [raised |-> FALSE, edges |-> edges,
                                  active_nodes |-> active_nodes]
                      path == Append(bt.edges, edge)
                  IN  IF bt.raised
                      THEN [raised |-> TRUE, found |-> FALSE, cycle |-> <<>>,
                            final_node |-> <<>>, seen |-> seen]
                      ELSE IF head \in bt.active_nodes
                           THEN [raised |-> FALSE, found |-> TRUE, cycle |-> path,
                                 final_node |-> head, seen |-> seen]
                           ELSE cycle_scan(Tail(yielded), explored, path, seen \cup {head},
                                           bt.active_nodes \cup {head}, <<head>>)

trim_cycle_keep_path(cycle, final_node) == cycle

RECURSIVE trim_cycle(_, _)
trim_cycle(cycle, final_node) ==
    IF Len(cycle) <= 1 \/ cycle[1][1] = final_node THEN cycle
    ELSE trim_cycle(Tail(cycle), final_node)

RECURSIVE find_cycle_from(_, _, _)
find_cycle_from(G, start_nodes, explored) ==
    IF start_nodes = <<>> THEN [raised |-> FALSE, no_cycle |-> TRUE, cycle |-> <<>>]
    ELSE IF Head(start_nodes) \in explored
         THEN find_cycle_from(G, Tail(start_nodes), explored)
         ELSE LET start_node == Head(start_nodes)
                  r == cycle_scan(edge_dfs(G, start_node), explored, <<>>,
                                  {start_node}, {start_node}, <<>>)
              IN  IF r.raised THEN [raised |-> TRUE, no_cycle |-> FALSE, cycle |-> <<>>]
                  ELSE IF r.found
                       THEN [raised |-> FALSE, no_cycle |-> FALSE,
                             cycle |-> trim_cycle(r.cycle, r.final_node)]
                       ELSE find_cycle_from(G, Tail(start_nodes), explored \cup r.seen)

find_cycle(G) == find_cycle_from(G, G.nodes, {})

(***************************************************************************)
(* identify_circular_dependencies: NetworkXNoCycle becomes the empty list, *)
(* any other exception propagates.                                         *)
(***************************************************************************)
identify_circular_dependencies(G) ==
    LET r == find_cycle(G)
    IN  [raised |-> r.raised, value |-> IF r.no_cycle THEN <<>> ELSE r.cycle]

(***************************************************************************)
(* draw_insights: the report, one entry per line before the final join.    *)
(***************************************************************************)
edge_text(e) == Str(e[1]) \o " -> " \o Str(e[2])

names_text(names) == join(", ", [i \in 1..Len(names) |-> Str(names[i])])

edges_text(es) == join(", ", [i \in 1..Len(es) |-> edge_text(es[i])])

insight_lines(G, critical_nodes, circular_dependencies) ==
    << "Insights about the codebase:",
       "Total number of nodes (files and imports): " \o ToString(Len(G.nodes)),
       "Total number of edges (dependencies): " \o ToString(Len(G.edges)),
       "Number of critical nodes (frequently imported): " \o ToString(Len(critical_nodes)),
       "Critical nodes: " \o names_text(critical_nodes) >>
    \o (IF circular_dependencies # <<>>
        THEN << "Number of circular dependencies: " \o ToString(Len(circular_dependencies)),
                "Circular dependencies: " \o edges_text(circular_dependencies) >>
        ELSE << "No circular dependencies found." >>)

draw_insights(G) ==
    LET critical_nodes == identify_critical_nodes(G)
        circular_dependencies == identify_circular_dependencies(G)
    IN  IF circular_dependencies.raised THEN [raised |-> TRUE, value |-> ""]
        ELSE [raised |-> FALSE,
              value |-> join("\n", insight_lines(G, critical_nodes,
                                                 circular_dependencies.value))]

(***************************************************************************)
(* visualize_graph: what is handed to the drawing library, layer by layer. *)
(* fig_size is max(14, num_nodes / 5), kept as five times its value.       *)
(***************************************************************************)
BaseNodeSize == 3000
SizePerImport == 100
MinFigSize == 14
NodesPerFigUnit == 5

visualize_graph(G, output_format) ==
    LET num_nodes == Len(G.nodes)
        critical_nodes == identify_critical_nodes(G)
        circular_dependencies == identify_circular_dependencies(G)
        node_sizes == [i \in 1..num_nodes |->
                          BaseNodeSize + SizePerImport * in_degree(G, G.nodes[i])]
    IN  IF circular_dependencies.raised THEN [raised |-> TRUE, value |-> <<>>]
        ELSE [raised |-> FALSE,
              value |-> [format |-> IF output_format = "pdf" THEN "pdf" ELSE "png",
                         fig_size_x5 |-> IF num_nodes > MinFigSize * NodesPerFigUnit
                                         THEN num_nodes ELSE MinFigSize * NodesPerFigUnit,
                         nodes |-> G.nodes,
                         edges |-> G.edges,
                         node_sizes |-> node_sizes,
                         critical |-> critical_nodes,
                         critical_sizes |-> [i \in 1..Len(critical_nodes) |->
                              node_sizes[IndexOf(G.nodes, critical_nodes[i])]],
                         circular_edges |-> [i \in 1..Len(circular_dependencies.value) |->
                              <<circular_dependencies.value[i][1],
                                circular_dependencies.value[i][2]>>],
                         import_nodes |-> SelectSeq(G.nodes, LAMBDA n : ~endswith(n, PySuffix)),
                         file_nodes |-> SelectSeq(G.nodes, LAMBDA n : endswith(n, PySuffix)),
                         title |-> "Enhanced Import Graph Visualization"]]

(***************************************************************************)
(* The three routes.  An exception that leaves a handler becomes the       *)
(* server's error response; nothing the handler computed is sent.          *)
(***************************************************************************)
NoResponse == [status |-> 0, mimetype |-> "", attachment |-> "", body |-> <<>>]

ServerError == [status |-> 500, mimetype |-> "text/html", attachment |-> "", body |-> <<>>]

Handled == response.status # 0

index(tree, walk) ==
    LET import_graph == build_import_graph(tree, walk)
        insights == draw_insights(import_graph.value)
    IN  IF import_graph.raised THEN [graph |-> NoGraph, response |-> ServerError]
        ELSE [graph |-> import_graph.value,
              response |-> IF insights.raised THEN ServerError
                           ELSE [status |-> 200, mimetype |-> "text/html", attachment |-> "",
                                 body |-> [template |-> "index.html",
                                           insights |-> insights.value]]]

graph_route(tree, walk) ==
    LET import_graph == build_import_graph(tree, walk)
        img == visualize_graph(import_graph.value, "png")
    IN  IF import_graph.raised THEN [graph |-> NoGraph, response |-> ServerError]
        ELSE [graph |-> import_graph.value,
              response |-> IF img.raised THEN ServerError
                           ELSE [status |-> 200, mimetype |-> "image/png", attachment |-> "",
                                 body |-> img.value]]

graph_pdf(tree, walk) ==
    LET import_graph == build_import_graph(tree, walk)
        pdf == visualize_graph(import_graph.value, "pdf")
    IN  IF import_graph.raised THEN [graph |-> NoGraph, response |-> ServerError]
        ELSE [graph |-> import_graph.value,
              response |-> IF pdf.raised THEN ServerError
                           ELSE [status |-> 200, mimetype |-> "application/pdf",
                                 attachment |-> "import_graph.pdf", body |-> pdf.value]]

GetIndex ==
    \E walk \in os_walk(fs) :
        \E handled \in {index(fs, walk)} :
            /\ graph' = handled.graph
            /\ response' = handled.response
            /\ UNCHANGED fs

GetGraph ==
    \E walk \in os_walk(fs) :
        \E handled \in {graph_route(fs, walk)} :
            /\ graph' = handled.graph
            /\ response' = handled.response
            /\ UNCHANGED fs

GetGraphPdf ==
    \E walk \in os_walk(fs) :
        \E handled \in {graph_pdf(fs, walk)} :
            /\ graph' = handled.graph
            /\ response' = handled.response
            /\ UNCHANGED fs

(***************************************************************************)
(* File names, source lines and texts the directory tree is drawn from.    *)
(***************************************************************************)
A_PY == <<"a", ".", "p", "y">>
B_PY == <<"b", ".", "p", "y">>
C_PY == <<"c", ".", "p", "y">>
NOTES_TXT == <<"n", "o", "t", "e", "s", ".", "t", "x", "t">>
OS == <<"o", "s">>
OS_COMMA == <<"o", "s", ",">>
A_B == <<"a", ".", "b">>
PkgPath == Dirs[2]

LImportOs == <<"i", "m", "p", "o", "r", "t", " ", "o", "s">>
LFromAImportB == <<"f", "r", "o", "m", " ", "a", " ", "i", "m", "p", "o", "r", "t", " ", "b">>
LImportComma == <<"i", "m", "p", "o", "r", "t", " ", "o", "s", ",", " ", "s", "y", "s">>
LIndented == <<" ", " ", "i", "m", "p", "o", "r", "t", " ", "o", "s", " ", "\t">>
LImportTab == <<"i", "m", "p", "o", "r", "t", "\t", "o", "s">>
LImportBare == <<"i", "m", "p", "o", "r", "t">>
LFromShort == <<"f", "r", "o", "m", " ", "a", " ", "i", "m", "p", "o", "r", "t">>
LFromNoImport == <<"f", "r", "o", "m", " ", "a", " ", "i", "m", "p", "o", "r", "t", "x", " ", "b">>
LFromTwoSpaces == <<"f", "r", "o", "m", " ", " ", "a", " ", "\t", "i", "m", "p", "o", "r", "t", " ", " ", "b", " ", "a", "s", " ", "c">>
LComment == <<"#", " ", "i", "m", "p", "o", "r", "t", " ", "o", "s">>
LBlank == <<>>
LImportAs == <<"i", "m", "p", "o", "r", "t", " ", "n", "u", "m", "p", "y", " ", "a", "s", " ", "n", "p">>
LFromDot == <<"f", "r", "o", "m", " ", ".", " ", "i", "m", "p", "o", "r", "t", " ", "x">>
LFromAImportPy == <<"f", "r", "o", "m", " ", "a", " ", "i", "m", "p", "o", "r", "t", " ", "p", "y">>
LImportA == <<"i", "m", "p", "o", "r", "t", " ", "a">>
A == <<"a">>

RECURSIVE JoinLines(_)
JoinLines(ls) ==
    IF ls = <<>> THEN <<>>
    ELSE IF Len(ls) = 1 THEN ls[1]
    ELSE ls[1] \o <<"\n">> \o JoinLines(Tail(ls))

Texts(Lines, n) == {JoinLines(ls) : ls \in SeqsUpTo(Lines, n)}

(* A directory tree of at most n files holding at most m lines in all.     *)
Drafts(Lines, m) ==
    {[lines |-> ls, readable |-> TRUE] : ls \in SeqsUpTo(Lines, m)}
        \cup {[lines |-> <<>>, readable |-> FALSE]}

RECURSIVE TotalLines(_, _)
TotalLines(draft, paths) ==
    IF paths = {} THEN 0
    ELSE LET p == CHOOSE q \in paths : TRUE
         IN  Len(draft[p].lines) + TotalLines(draft, paths \ {p})

Trees(Paths, Lines, n, m) ==
    {[p \in DOMAIN draft |->
         [text |-> JoinLines(draft[p].lines), readable |-> draft[p].readable]] :
       draft \in {d \in UNION {[P -> Drafts(Lines, m)] :
                                 P \in {Q \in SUBSET Paths : Cardinality(Q) <= n}} :
                     TotalLines(d, DOMAIN d) <= m}}

EmptyTree == [p \in {} |-> [text |-> <<>>, readable |-> TRUE]]

ParseLines == {LImportOs, LFromAImportB, LImportComma, LIndented, LImportTab, LImportBare, LFromShort, LFromNoImport, LFromTwoSpaces, LComment, LBlank, LImportAs, LFromDot}

BuildLines == {LImportA, LFromAImportPy}

BuildPaths ==
    {<<CodebasePath, A_PY>>, <<CodebasePath, B_PY>>, <<PkgPath, A_PY>>,
     <<CodebasePath, NOTES_TXT>>}

EditPaths == {<<CodebasePath, A_PY>>, <<CodebasePath, B_PY>>, <<PkgPath, A_PY>>}

EditTexts == {<<>>, LImportA, LFromAImportPy}

GraphNames == {A_PY, B_PY, C_PY}

(***************************************************************************)
(* The server: requests interleaved with changes of the directory tree.    *)
(***************************************************************************)
WriteFile ==
    \E path \in EditPaths, text \in EditTexts :
        /\ fs' = [p \in DOMAIN fs \cup {path} |->
                     IF p = path THEN [text |-> text, readable |-> TRUE] ELSE fs[p]]
        /\ UNCHANGED <<graph, response>>

RemoveFile ==
    \E path \in DOMAIN fs :
        /\ fs' = [p \in DOMAIN fs \ {path} |-> fs[p]]
        /\ UNCHANGED <<graph, response>>

Chmod ==
    \E path \in DOMAIN fs :
        /\ fs' = [fs EXCEPT ![path].readable = ~fs[path].readable]
        /\ UNCHANGED <<graph, response>>

Init ==
    /\ fs = EmptyTree
    /\ graph = NoGraph
    /\ response = NoResponse

Next ==
    \/ WriteFile
    \/ RemoveFile
    \/ Chmod
    \/ GetIndex
    \/ GetGraph
    \/ GetGraphPdf

Spec == Init /\ [][Next]_vars

(***************************************************************************)
(* One request against each bounded directory tree.                        *)
(***************************************************************************)
InitBuild ==
    /\ fs \in Trees(BuildPaths, BuildLines, MaxFiles, MaxLines)
    /\ graph = NoGraph
    /\ response = NoResponse

NextBuild ==
    \/ GetIndex
    \/ GetGraph
    \/ GetGraphPdf

SpecBuild == InitBuild /\ [][NextBuild]_vars

(***************************************************************************)
(* parse_imports on each bounded file text, reached through GET /.         *)
(***************************************************************************)
InitParse ==
    /\ fs \in {[p \in {<<CodebasePath, A_PY>>} |-> [text |-> t, readable |-> TRUE]] :
                 t \in Texts(ParseLines, MaxParseLines)}
    /\ graph = NoGraph
    /\ response = NoResponse

NextParse == GetIndex

SpecParse == InitParse /\ [][NextParse]_vars

(***************************************************************************)
(* The analysis functions on each bounded graph.                           *)
(***************************************************************************)
RECURSIVE graph_of(_, _)
graph_of(G, es) ==
    IF es = <<>> THEN G ELSE graph_of(add_edge(G, Head(es)[1], Head(es)[2]), Tail(es))

ApplyDrawInsights ==
    /\ response' = IF draw_insights(graph).raised THEN ServerError
                   ELSE [status |-> 200, mimetype |-> "text/html", attachment |-> "",
                         body |-> [template |-> "index.html",
                                   insights |-> draw_insights(graph).value]]
    /\ UNCHANGED <<fs, graph>>

ApplyVisualize ==
    \E output_format \in {"png", "pdf"} :
        /\ response' = IF visualize_graph(graph, output_format).raised THEN ServerError
                       ELSE [status |-> 200,
                             mimetype |-> IF output_format = "pdf" THEN "application/pdf"
                                          ELSE "image/png",
                             attachment |-> IF output_format = "pdf" THEN "import_graph.pdf"
                                            ELSE "",
                             body |-> visualize_graph(graph, output_format).value]
        /\ UNCHANGED <<fs, graph>>

InitGraph ==
    /\ fs = EmptyTree
    /\ graph \in {graph_of(EmptyGraph, es) :
                    es \in SeqsUpTo(GraphNames \X GraphNames, MaxEdges)}
    /\ response = NoResponse

NextGraph ==
    \/ ApplyDrawInsights
    \/ ApplyVisualize

SpecGraph == InitGraph /\ [][NextGraph]_vars

(***************************************************************************)
(* Declarative readings used by the properties below.                      *)
(***************************************************************************)
Kth(S, k) == CHOOSE x \in S : Cardinality({y \in S : y < x}) = k - 1

Ascending(S) == [k \in 1..Cardinality(S) |-> Kth(S, k)]

HasPrefix(s, prefix) == \A i \in 1..Len(prefix) : i <= Len(s) /\ s[i] = prefix[i]

LineStarts(text) ==
    {i \in 1..Len(text) : i = 1 \/ text[i - 1] = "\n"}

LineEnd(text, start) ==
    IF \E j \in start..Len(text) : text[j] = "\n"
    THEN (CHOOSE j \in start..Len(text) :
              text[j] = "\n" /\ \A k \in start..(j - 1) : text[k] # "\n") - 1
    ELSE Len(text)

LinesOf(text) ==
    LET starts == Ascending(LineStarts(text))
    IN  [k \in 1..Len(starts) |-> SubSeq(text, starts[k], LineEnd(text, starts[k]))]

Trimmed(line) ==
    LET solid == {i \in 1..Len(line) : line[i] \notin Whitespace}
    IN  IF solid = {} THEN <<>>
        ELSE SubSeq(line, Kth(solid, 1), Kth(solid, Cardinality(solid)))

TokenStarts(line) ==
    {i \in 1..Len(line) :
        line[i] \notin Whitespace /\ (i = 1 \/ line[i - 1] \in Whitespace)}

TokenEnd(line, start) ==
    CHOOSE j \in start..Len(line) :
        /\ \A k \in start..j : line[k] \notin Whitespace
        /\ (j = Len(line) \/ line[j + 1] \in Whitespace)

Tokens(line) ==
    LET starts == Ascending(TokenStarts(line))
    IN  [k \in 1..Len(starts) |-> SubSeq(line, starts[k], TokenEnd(line, starts[k]))]

Emitted(rawline) ==
    LET line == Trimmed(rawline)
        tok == Tokens(line)
    IN  IF HasPrefix(line, ImportPrefix) /\ Len(tok) >= 2 THEN <<tok[2]>>
        ELSE IF HasPrefix(line, FromPrefix) /\ Len(tok) >= 4 /\ tok[3] = ImportWord
             THEN <<tok[2] \o <<".">> \o tok[4]>>
             ELSE <<>>

Extracted(text) ==
    LET ls == LinesOf(text)
    IN  Flatten([k \in 1..Len(ls) |-> Emitted(ls[k])])

PyPaths(tree) == {p \in DOMAIN tree : endswith(p[2], PySuffix)}

PyBaseNames(tree) == {p[2] : p \in PyPaths(tree)}

ImportsOf(tree, p) == Range(Extracted(tree[p].text))

ExtractedNames(tree) == UNION {ImportsOf(tree, p) : p \in PyPaths(tree)}

ImportPairs(tree) ==
    UNION {{<<p[2], n>> : n \in ImportsOf(tree, p)} : p \in PyPaths(tree)}

SomeReadFails(tree) == \E p \in PyPaths(tree) : ~tree[p].readable

Answered == response.status = 200

EdgeSet(G) == Range(G.edges)

NodeSet(G) == Range(G.nodes)

Importers(G, n) == {e[1] : e \in {d \in EdgeSet(G) : d[2] = n}}

RECURSIVE ReachIn(_, _, _)
ReachIn(G, from, steps) ==
    IF steps = 0 THEN {}
    ELSE LET direct == {e[2] : e \in {d \in EdgeSet(G) : d[1] \in from}}
         IN  direct \cup ReachIn(G, direct, steps - 1)

HasCycle(G) == \E n \in NodeSet(G) : n \in ReachIn(G, {n}, Len(G.nodes))

(***************************************************************************)
(* C1. parse_imports returns, for every file text, the names emitted line  *)
(* by line in file order, duplicates kept: token 2 of a trimmed line that  *)
(* starts with "import " and has at least 2 tokens; "<token2>.<token4>" of *)
(* a trimmed line that starts with "from ", has at least 4 tokens and      *)
(* "import" as token 3; nothing otherwise.  `import os` followed by        *)
(* `from a import b` gives ["os", "a.b"]; `import os, sys` gives ["os,"].  *)
(* The graph GET / builds from the file holds exactly these names.         *)
(***************************************************************************)
C1_ParseImports ==
    /\ parse_text(JoinLines(<<LImportOs, LFromAImportB>>)) = <<OS, A_B>>
    /\ parse_text(LImportComma) = <<OS_COMMA>>
    /\ \A p \in DOMAIN fs :
          LET names == Extracted(fs[p].text)
          IN  /\ parse_imports(fs, p) = [raised |-> FALSE, value |-> names]
              /\ Answered =>
                    graph = graph_of(EmptyGraph, [k \in 1..Len(names) |-> <<p[2], names[k]>>])

C1_Witness ==
    /\ Answered
    /\ \E p \in DOMAIN fs :
          /\ fs[p].text = JoinLines(<<LIndented, LFromTwoSpaces>>)
          /\ graph.nodes = <<p[2], OS, A_B>>

(***************************************************************************)
(* C2. The node set of the built graph is the union of the base names of   *)
(* all ".py" files of the tree and of all names extracted from them; a     *)
(* ".py" file from which nothing is extracted is still a node.             *)
(***************************************************************************)
C2_NodesAreFilesAndImports ==
    Answered => NodeSet(graph) = PyBaseNames(fs) \cup ExtractedNames(fs)

(***************************************************************************)
(* C3. The in-degree of a node of the built graph is the number of         *)
(* distinct files of the tree that import it (files sharing a base name    *)
(* count separately), and identify_critical_nodes returns a node exactly   *)
(* when two or more files import it.                                       *)
(***************************************************************************)
C3_InDegreeCountsFiles ==
    Answered =>
        \A n \in NodeSet(graph) :
            LET importing == {p \in PyPaths(fs) : n \in ImportsOf(fs, p)}
            IN  /\ in_degree(graph, n) = Cardinality(importing)
                /\ Contains(identify_critical_nodes(graph), n) <=> Cardinality(importing) >= 2

(***************************************************************************)
(* C4. identify_circular_dependencies returns a non-empty list exactly     *)
(* when the graph has a directed cycle (self-loops included); the edges    *)
(* returned are edges of the graph and form one simple directed cycle:     *)
(* each head is the next tail, the last head is the first tail, no node is *)
(* left twice.  For a->b, b->c, c->a all three edges are returned.         *)
(***************************************************************************)
C4_OneSimpleCycle ==
    LET found == identify_circular_dependencies(graph)
        c == found.value
        n == Len(c)
    IN  /\ ~found.raised
        /\ (c # <<>>) <=> HasCycle(graph)
        /\ \A i \in 1..n :
              /\ <<c[i][1], c[i][2]>> \in EdgeSet(graph)
              /\ c[i][2] = c[(i % n) + 1][1]
              /\ \A j \in 1..n : c[i][1] = c[j][1] => i = j
        /\ EdgeSet(graph) = {<<A_PY, B_PY>>, <<B_PY, C_PY>>, <<C_PY, A_PY>>}
              => {<<c[i][1], c[i][2]>> : i \in 1..n} = EdgeSet(graph) /\ n = 3

C4_Witness ==
    /\ Answered
    /\ response.mimetype = "text/html"
    /\ EdgeSet(graph) = {<<A_PY, B_PY>>, <<B_PY, C_PY>>, <<C_PY, A_PY>>, <<C_PY, C_PY>>}
    /\ Len(identify_circular_dependencies(graph).value) = 3

EmptyReport ==
    "Insights about the codebase:\nTotal number of nodes (files and imports): 0\nTotal number of edges (dependencies): 0\nNumber of critical nodes (frequently imported): 0\nCritical nodes: \nNo circular dependencies found."

(***************************************************************************)
(* C5. For a tree with no ".py" file the built graph has 0 nodes and 0     *)
(* edges, and the report is produced without error, with node, edge and    *)
(* critical-node counts 0 and the line "No circular dependencies found.".  *)
(***************************************************************************)
C5_NoSourceFiles ==
    (Handled /\ PyPaths(fs) = {}) =>
        /\ Answered
        /\ graph = EmptyGraph
        /\ response.mimetype = "text/html" => response.body.insights = EmptyReport

C5_Witness ==
    /\ Answered
    /\ response.mimetype = "text/html"
    /\ PyPaths(fs) = {}
    /\ \E p \in DOMAIN fs : fs[p].readable /\ Extracted(fs[p].text) # <<>>

BuiltFrom(G, tree) ==
    IF SomeReadFails(tree) THEN G = NoGraph
    ELSE /\ G # NoGraph
         /\ EdgeSet(G) = ImportPairs(tree)
         /\ NodeSet(G) = {e[1] : e \in ImportPairs(tree)} \cup {e[2] : e \in ImportPairs(tree)}
         /\ Len(G.edges) = Cardinality(EdgeSet(G))
         /\ Len(G.nodes) = Cardinality(NodeSet(G))

(***************************************************************************)
(* C6. The graph a request builds depends only on the directory tree at    *)
(* the time of the request, never on what earlier requests left: its node  *)
(* and edge sets and counts are those of the tree, so two successive       *)
(* builds of an unchanged tree agree.                                      *)
(***************************************************************************)
C6_FreshGraphPerRequest ==
    [][fs' = fs =>
          /\ BuiltFrom(graph', fs')
          /\ (Handled /\ BuiltFrom(graph, fs)) =>
                /\ NodeSet(graph') = NodeSet(graph)
                /\ EdgeSet(graph') = EdgeSet(graph)
                /\ Len(graph'.nodes) = Len(graph.nodes)
                /\ Len(graph'.edges) = Len(graph.edges)]_vars

C6_Witness ==
    /\ Answered
    /\ response.mimetype = "application/pdf"
    /\ Cardinality(DOMAIN fs) = 3
    /\ Len(graph.edges) = 2
    /\ BuiltFrom(graph, fs)

(***************************************************************************)
(* C7. When a ".py" file of the tree cannot be read, the request ends in   *)
(* the server's error response and carries no graph, report or image, also *)
(* when other files were scanned before the failure.                       *)
(***************************************************************************)
C7_ReadFailureAborts ==
    (Handled /\ SomeReadFails(fs)) =>
        /\ response = ServerError
        /\ response.body = <<>>
        /\ graph = NoGraph

C7_Witness ==
    /\ response = ServerError
    /\ \E p, q \in PyPaths(fs) :
          /\ fs[p].readable
          /\ Extracted(fs[p].text) # <<>>
          /\ ~fs[q].readable

(***************************************************************************)
(* C8. identify_critical_nodes returns exactly the nodes with in-degree    *)
(* greater than 1, each once, in the order the nodes entered the graph.    *)
(***************************************************************************)
C8_CriticalNodes ==
    LET critical == identify_critical_nodes(graph)
    IN  /\ Range(critical) = {n \in NodeSet(graph) : Cardinality(Importers(graph, n)) > 1}
        /\ NoDup(critical)
        /\ \A i, j \in 1..Len(critical) :
              i < j => IndexOf(graph.nodes, critical[i]) < IndexOf(graph.nodes, critical[j])

C8_Witness ==
    /\ Answered
    /\ response.mimetype = "image/png"
    /\ response.body.critical = <<C_PY, A_PY>>
    /\ graph.nodes = <<B_PY, C_PY, A_PY>>
    /\ Importers(graph, B_PY) = {}

WithRepeatedLine(tree, p, line) ==
    [tree EXCEPT ![p].text = tree[p].text \o <<"\n">> \o line]

(***************************************************************************)
(* C9. A name extracted several times from one file gives one edge: the    *)
(* edge count is the number of distinct (file base name, name) pairs, and  *)
(* repeating an import line of a file changes neither the nodes, the edges *)
(* nor any in-degree.                                                      *)
(***************************************************************************)
C9_DuplicateImportsCollapse ==
    Answered =>
        /\ Len(graph.edges) = Cardinality(ImportPairs(fs))
        /\ EdgeSet(graph) = ImportPairs(fs)
        /\ \A p \in PyPaths(fs) :
              \A line \in {l \in Range(LinesOf(fs[p].text)) : Emitted(l) # <<>>} :
                 \A walk \in os_walk(WithRepeatedLine(fs, p, line)) :
                    LET again == build_import_graph(WithRepeatedLine(fs, p, line), walk).value
                    IN  /\ NodeSet(again) = NodeSet(graph)
                        /\ EdgeSet(again) = EdgeSet(graph)
                        /\ Len(again.edges) = Len(graph.edges)
                        /\ \A n \in NodeSet(graph) : in_degree(again, n) = in_degree(graph, n)

C9_Witness ==
    /\ Answered
    /\ \E p \in PyPaths(fs) :
          /\ Extracted(fs[p].text) = <<A, A>>
          /\ graph.edges = <<<<p[2], A>>>>

(***************************************************************************)
(* C10. Every edge of the built graph leaves a name ending in ".py"; so do *)
(* all nodes of a reported cycle, and a cycle is reported only when some   *)
(* extracted name ends in ".py" and is the base name of a file.            *)
(***************************************************************************)
C10_ImportersAreSourceFiles ==
    Answered =>
        LET c == identify_circular_dependencies(graph).value
        IN  /\ \A e \in EdgeSet(graph) : endswith(e[1], PySuffix)
            /\ \A i \in 1..Len(c) : endswith(c[i][1], PySuffix) /\ endswith(c[i][2], PySuffix)
            /\ c # <<>> =>
                  \E n \in ExtractedNames(fs) : endswith(n, PySuffix) /\ n \in PyBaseNames(fs)

C10_Witness ==
    /\ Answered
    /\ identify_circular_dependencies(graph).value = <<<<A_PY, A_PY, "forward">>>>
    /\ <<B_PY, A>> \in EdgeSet(graph)

====
